---- MODULE Spec2Model ----
(***************************************************************************)
(* Farm_Connect (src/app.py): a Flask / SQLAlchemy marketplace.            *)
(*                                                                         *)
(* The state is the content of the three tables (user, product, order)    *)
(* plus the response of the request served last.  A route handler is an   *)
(* operator from the database and the request to the response and the     *)
(* database it commits; serving a request is one action, from the         *)
(* decorator to the final commit.  The concurrent specification SpecConc  *)
(* splits order_product into the steps request threads can interleave.    *)
(*                                                                         *)
(* Columns no property below refers to (password_hash, name and           *)
(* contact_number of a user, name, description, created_at and image_url  *)
(* of a product, order_date) are not part of the state; the form fields   *)
(* that feed them are still inputs where a handler validates them.        *)
(***************************************************************************)
EXTENDS Integers, Sequences, FiniteSets, TLC

VARIABLES users, products, orders, last, req

vars == <<users, products, orders, last, req>>

(***************************************************************************)
(* Bounds of the model.                                                    *)
(***************************************************************************)
MaxUsers == 4
MaxProductId == 4
MaxOrders == 3
NumRequests == 2

(***************************************************************************)
(* Form values.  request.form.get(k) is None when the field is missing.    *)
(***************************************************************************)
NONE == "<None>"

Anon == 0

\* str.strip() on the strings the forms submit
Strip(s) ==
  CASE s = " " -> ""
    [] s = " farmer1 " -> "farmer1"
    [] s = " Kale " -> "Kale"
    [] OTHER -> s

\* a numeric form field: missing/empty, an integer literal, or other text
EmptyField == [kind |-> "empty", val |-> 0]
TextField == [kind |-> "text", val |-> 0]
IntField(n) == [kind |-> "int", val |-> n]

\* `int(request.form.get('quantity') or 0)`: TRUE when int() raises ValueError
RaisesValueError(f) == f.kind = "text"

\* `int(request.form.get('quantity') or 0)` / `float(request.form.get('price') or 0.0)`
ParseNumber(f) == IF f.kind = "int" THEN f.val ELSE 0

OrderQuantities ==
  {EmptyField, TextField, IntField(-1), IntField(30), IntField(101)}

\* the registration form: every field filled, or one required field blank
\* or (the role) outside the two self-service roles
FilledRegisterForms ==
  [username : {" farmer1 ", "dave"}, password : {"pw"},
   role : {"farmer", "customer"}, name : {"Dave"}, contact_number : {"1"}]
BlankRegisterForms ==
  { [username |-> "", password |-> "pw", role |-> "farmer", name |-> "Dave", contact_number |-> "1"],
    [username |-> "dave", password |-> "", role |-> "farmer", name |-> "Dave", contact_number |-> "1"],
    [username |-> "dave", password |-> "pw", role |-> "admin", name |-> "Dave", contact_number |-> "1"],
    [username |-> "dave", password |-> "pw", role |-> "farmer", name |-> " ", contact_number |-> "1"],
    [username |-> "dave", password |-> "pw", role |-> "farmer", name |-> "Dave", contact_number |-> ""] }
RegisterForms == FilledRegisterForms \cup BlankRegisterForms

\* the user form of the admin: a fresh, a taken and the protected username,
\* roles of the three kinds, a role outside them, and a missing role field
AdminUserForms ==
  { [username |-> "dave", role |-> "farmer"],
    [username |-> "dave", role |-> "customer"],
    [username |-> "dave", role |-> "admin"],
    [username |-> "dave", role |-> NONE],
    [username |-> " farmer1 ", role |-> "manager"],
    [username |-> "admin", role |-> "customer"] }

\* a GET request carries no form: every request.form.get() is None
NoForm == [username |-> NONE, password |-> NONE, role |-> NONE,
           name |-> NONE, contact_number |-> NONE]
NoUserForm == [username |-> NONE, role |-> NONE]

(***************************************************************************)
(* Tables                                                                  *)
(***************************************************************************)
\* the database: user and order rows by id (ids are never freed), product
\* rows by id
DB == [users |-> users, products |-> products, orders |-> orders]

UserIds(db) == 1..Len(db.users)
ProductIds(db) == DOMAIN db.products
OrderIds(db) == 1..Len(db.orders)

\* who can send a request: nobody logged in, or a session of a user
Callers == {Anon} \cup UserIds(DB)

SetMax(S) == CHOOSE m \in S : \A x \in S : x <= m

\* SQLite INTEGER PRIMARY KEY without AUTOINCREMENT: largest rowid plus one
NextProductId(db) ==
  IF ProductIds(db) = {} THEN 1 ELSE SetMax(ProductIds(db)) + 1

\* the product ids the requests name: Tomatoes (which has an order), the
\* products added since boot, and an id no product has
SeedProducts == 3
TargetProductIds ==
  {1} \cup {p \in ProductIds(DB) : p > SeedProducts} \cup {NextProductId(DB)}

\* a request thread of order_product that has not started
IdleReq == [pc |-> "idle", caller |-> 0, pid |-> 0, qty |-> EmptyField,
            seen |-> 0, quantity |-> 0, price |-> 0, total |-> 0,
            outcome |-> "none"]

\* create_demo_data
Init ==
  /\ users = << [username |-> "admin", role |-> "admin"],
                [username |-> "farmer1", role |-> "farmer"],
                [username |-> "cust1", role |-> "customer"] >>
  /\ products = (1 :> [farmer_id |-> 2, quantity |-> 100, price |-> 30])
             @@ (2 :> [farmer_id |-> 2, quantity |-> 50, price |-> 20])
             @@ (3 :> [farmer_id |-> 2, quantity |-> 40, price |-> 25])
  /\ orders = << [customer_id |-> 3, product_id |-> 1, quantity |-> 5,
                  total_price |-> 150, is_new |-> FALSE] >>
  /\ last = [op |-> "boot", outcome |-> "ok", value |-> 0]
  /\ req = [r \in 1..NumRequests |-> IdleReq]

\* a response that leaves the database as it was (flash and redirect, abort,
\* or an exception before the commit)
Keep(db, outcome) == [outcome |-> outcome, db |-> db, value |-> 0]

\* a response after db.session.commit()
Commit(db, outcome) == [outcome |-> outcome, db |-> db, value |-> 0]

(***************************************************************************)
(* Access-control gate                                                     *)
(***************************************************************************)

\* role_required that only asks for a session
role_required_AnySession(db, caller, role) ==
  IF caller = Anon THEN "challenge" ELSE "allow"

\* role_required(role): the decision taken before the wrapped handler runs
role_required(db, caller, role) ==
  IF caller = Anon THEN "challenge"
  ELSE IF db.users[caller].role # role THEN "forbid"
  ELSE "allow"

\* login_manager.unauthorized() and abort(403)
Denied(db, caller, role) ==
  Keep(db, IF role_required(db, caller, role) = "challenge"
             THEN "login_challenge" ELSE "forbidden")

(***************************************************************************)
(* Identity store                                                          *)
(***************************************************************************)
UsernameTaken(db, name) ==
  \E u \in UserIds(db) : db.users[u].username = name

RegisterFormValid(form) ==
  /\ Strip(form.username) # ""
  /\ form.password # ""
  /\ form.role \in {"farmer", "customer"}
  /\ Strip(form.name) # ""
  /\ Strip(form.contact_number) # ""

register(db, caller, method, form) ==
  IF caller # Anon THEN Keep(db, "redirect_index")
  ELSE IF method # "POST" THEN Keep(db, "form")
  ELSE IF ~RegisterFormValid(form) THEN Keep(db, "validation_error")
  ELSE IF UsernameTaken(db, Strip(form.username))
    THEN Keep(db, "duplicate_username")
  ELSE Commit([db EXCEPT !.users =
                 Append(@, [username |-> Strip(form.username),
                            role |-> form.role])], "ok")


\* the user table without the UNIQUE constraint on username
UserCommitOk_NoUnique(db, uid, username, role) == role # NONE

\* the constraints of the user table checked when admin_edit_user commits:
\* username is UNIQUE, role is NOT NULL
UserCommitOk(db, uid, username, role) ==
  /\ role # NONE
  /\ \A u \in UserIds(db) \ {uid} : db.users[u].username # username

admin_edit_user(db, caller, method, uid, form) ==
  IF role_required(db, caller, "admin") # "allow" THEN Denied(db, caller, "admin")
  ELSE IF uid \notin UserIds(db) THEN Keep(db, "not_found")
  ELSE IF db.users[uid].username = "admin" THEN Keep(db, "protected_account")
  ELSE IF method # "POST" THEN Keep(db, "form")
  ELSE IF ~UserCommitOk(db, uid, Strip(form.username), form.role)
    THEN Keep(db, "server_error")
  ELSE Commit([db EXCEPT !.users[uid] =
                 [username |-> Strip(form.username), role |-> form.role]], "ok")

\* admin_dashboard, admin_users, admin_products: they read and change nothing
admin_view(db, caller) ==
  IF role_required(db, caller, "admin") # "allow" THEN Denied(db, caller, "admin")
  ELSE Keep(db, "ok")

(***************************************************************************)
(* Catalog store                                                           *)
(***************************************************************************)
\* the product form: a valid one, and one per way a field can be off
ProductForms ==
  { [name |-> " Kale ", quantity |-> IntField(30), price |-> IntField(20)],
    [name |-> " Kale ", quantity |-> IntField(-1), price |-> IntField(20)],
    [name |-> " ", quantity |-> IntField(30), price |-> IntField(20)],
    [name |-> " Kale ", quantity |-> TextField, price |-> IntField(20)] }

NoProductForm == [name |-> NONE, quantity |-> EmptyField, price |-> EmptyField]

add_product(db, caller, method, form) ==
  IF role_required(db, caller, "farmer") # "allow" THEN Denied(db, caller, "farmer")
  ELSE IF method # "POST" THEN Keep(db, "form")
  ELSE IF RaisesValueError(form.quantity) \/ RaisesValueError(form.price)
    THEN Keep(db, "server_error")
  ELSE IF Strip(form.name) = "" THEN Keep(db, "validation_error")
  ELSE Commit([db EXCEPT !.products = @ @@
                 (NextProductId(db) :> [farmer_id |-> caller,
                                        quantity |-> ParseNumber(form.quantity),
                                        price |-> ParseNumber(form.price)])], "ok")


\* edit_product without the owner check of line 244
edit_product_NoOwnerCheck(db, caller, method, pid, form) ==
  IF role_required(db, caller, "farmer") # "allow" THEN Denied(db, caller, "farmer")
  ELSE IF pid \notin ProductIds(db) THEN Keep(db, "not_found")
  ELSE IF method # "POST" THEN Keep(db, "form")
  ELSE IF RaisesValueError(form.quantity) \/ RaisesValueError(form.price)
    THEN Keep(db, "server_error")
  ELSE Commit([db EXCEPT !.products[pid] =
                 [@ EXCEPT !.quantity = ParseNumber(form.quantity),
                           !.price = ParseNumber(form.price)]], "ok")

edit_product(db, caller, method, pid, form) ==
  IF role_required(db, caller, "farmer") # "allow" THEN Denied(db, caller, "farmer")
  ELSE IF pid \notin ProductIds(db) THEN Keep(db, "not_found")
  ELSE IF db.products[pid].farmer_id # caller THEN Keep(db, "forbidden")
  ELSE IF method # "POST" THEN Keep(db, "form")
  ELSE IF RaisesValueError(form.quantity) \/ RaisesValueError(form.price)
    THEN Keep(db, "server_error")
  ELSE Commit([db EXCEPT !.products[pid] =
                 [@ EXCEPT !.quantity = ParseNumber(form.quantity),
                           !.price = ParseNumber(form.price)]], "ok")

\* Product.orders has no delete cascade: the flush sets product_id of the
\* product's orders to NULL, which the NOT NULL column rejects
DeleteCommitOk(db, pid) ==
  \A o \in OrderIds(db) : db.orders[o].product_id # pid

delete_product(db, caller, method, pid) ==
  IF method # "POST" THEN Keep(db, "method_not_allowed")
  ELSE IF role_required(db, caller, "farmer") # "allow"
    THEN Denied(db, caller, "farmer")
  ELSE IF pid \notin ProductIds(db) THEN Keep(db, "not_found")
  ELSE IF db.products[pid].farmer_id # caller THEN Keep(db, "forbidden")
  ELSE IF ~DeleteCommitOk(db, pid) THEN Keep(db, "server_error")
  ELSE Commit([db EXCEPT !.products =
                 [p \in ProductIds(db) \ {pid} |-> db.products[p]]], "ok")

(***************************************************************************)
(* Order ledger                                                            *)
(***************************************************************************)

\* the checks without the stock check of line 302
OrderCheck_NoStockCheck(qtyField, quantity) ==
  IF RaisesValueError(qtyField) THEN "server_error"
  ELSE IF ParseNumber(qtyField) <= 0 THEN "invalid_quantity"
  ELSE "ok"

\* lines 298-304: the checks of a POST against the product as loaded
OrderCheck(qtyField, quantity) ==
  IF RaisesValueError(qtyField) THEN "server_error"
  ELSE IF ParseNumber(qtyField) <= 0 THEN "invalid_quantity"
  ELSE IF ParseNumber(qtyField) > quantity THEN "insufficient_stock"
  ELSE "ok"


\* an order priced at the unit price, whatever its quantity
NewOrder_UnitPrice(caller, pid, qty, price) ==
  [customer_id |-> caller, product_id |-> pid, quantity |-> qty,
   total_price |-> price, is_new |-> TRUE]

\* lines 305-306
NewOrder(caller, pid, qty, price) ==
  [customer_id |-> caller, product_id |-> pid, quantity |-> qty,
   total_price |-> qty * price, is_new |-> TRUE]

order_product(db, caller, method, pid, qtyField) ==
  IF caller = Anon THEN Keep(db, "login_challenge")
  ELSE IF pid \notin ProductIds(db) THEN Keep(db, "not_found")
  ELSE IF db.users[caller].role # "customer" THEN Keep(db, "not_customer")
  ELSE IF method # "POST" THEN Keep(db, "form")
  ELSE IF OrderCheck(qtyField, db.products[pid].quantity) # "ok"
    THEN Keep(db, OrderCheck(qtyField, db.products[pid].quantity))
  ELSE Commit([db EXCEPT
                 !.orders = Append(@, NewOrder(caller, pid, ParseNumber(qtyField),
                                               db.products[pid].price)),
                 !.products[pid].quantity = @ - ParseNumber(qtyField)], "ok")


\* the new orders of every farmer
NewOrdersOf_AnyFarmer(db, farmer) ==
  { o \in OrderIds(db) : db.orders[o].is_new }

\* Order.query.join(Product).filter(Product.farmer_id == farmer, Order.is_new == True)
NewOrdersOf(db, farmer) ==
  { o \in OrderIds(db) : /\ db.orders[o].product_id \in ProductIds(db)
                         /\ db.products[db.orders[o].product_id].farmer_id = farmer
                         /\ db.orders[o].is_new }

farmer_dashboard(db, caller) ==
  IF role_required(db, caller, "farmer") # "allow" THEN Denied(db, caller, "farmer")
  ELSE Commit([db EXCEPT !.orders =
                 [o \in OrderIds(db) |->
                    IF o \in NewOrdersOf(db, caller)
                      THEN [db.orders[o] EXCEPT !.is_new = FALSE]
                      ELSE db.orders[o]]], "ok")

new_orders_count(db, caller) ==
  IF role_required(db, caller, "farmer") # "allow" THEN Denied(db, caller, "farmer")
  ELSE [Keep(db, "ok") EXCEPT !.value = Cardinality(NewOrdersOf(db, caller))]

(***************************************************************************)
(* Serving requests one at a time                                          *)
(***************************************************************************)
\* the handler's response is sent and what it committed becomes the database
Serve(op, r) ==
  /\ Len(r.db.users) <= MaxUsers
  /\ \A p \in DOMAIN r.db.products : p <= MaxProductId
  /\ Len(r.db.orders) <= MaxOrders
  /\ users' = r.db.users
  /\ products' = r.db.products
  /\ orders' = r.db.orders
  /\ last' = [op |-> op, outcome |-> r.outcome, value |-> r.value]
  /\ UNCHANGED req

Register ==
  \E caller \in Callers :
    \/ Serve("register", register(DB, caller, "GET", NoForm))
    \/ \E form \in RegisterForms :
         Serve("register", register(DB, caller, "POST", form))

AdminEditUser ==
  \E caller \in Callers, uid \in 1..(Len(users) + 1) :
    \/ Serve("admin_edit_user", admin_edit_user(DB, caller, "GET", uid, NoUserForm))
    \/ \E form \in AdminUserForms :
         Serve("admin_edit_user", admin_edit_user(DB, caller, "POST", uid, form))

AdminDashboard ==
  \E caller \in Callers : Serve("admin_dashboard", admin_view(DB, caller))

AdminUsers ==
  \E caller \in Callers : Serve("admin_users", admin_view(DB, caller))

AdminProducts ==
  \E caller \in Callers : Serve("admin_products", admin_view(DB, caller))

AddProduct ==
  \E caller \in Callers :
    \/ Serve("add_product", add_product(DB, caller, "GET", NoProductForm))
    \/ \E form \in ProductForms :
         Serve("add_product", add_product(DB, caller, "POST", form))

EditProduct ==
  \E caller \in Callers, pid \in TargetProductIds :
    \/ Serve("edit_product", edit_product(DB, caller, "GET", pid, NoProductForm))
    \/ \E form \in ProductForms :
         Serve("edit_product", edit_product(DB, caller, "POST", pid, form))

DeleteProduct ==
  \E caller \in Callers, pid \in TargetProductIds, method \in {"GET", "POST"} :
    Serve("delete_product", delete_product(DB, caller, method, pid))

PlaceOrder ==
  \E caller \in Callers, pid \in TargetProductIds :
    \/ Serve("order_product", order_product(DB, caller, "GET", pid, EmptyField))
    \/ \E q \in OrderQuantities :
         Serve("order_product", order_product(DB, caller, "POST", pid, q))

MarkSeen ==
  \E caller \in Callers : Serve("farmer_dashboard", farmer_dashboard(DB, caller))

CountNewForFarmer ==
  \E caller \in Callers : Serve("new_orders_count", new_orders_count(DB, caller))

\* the identity store and the admin's views
NextIdentity ==
  \/ Register
  \/ AdminEditUser
  \/ AdminDashboard
  \/ AdminUsers
  \/ AdminProducts

SpecIdentity == Init /\ [][NextIdentity]_vars

\* the catalog with its owners
NextCatalog ==
  \/ Register
  \/ AddProduct
  \/ EditProduct
  \/ DeleteProduct

SpecCatalog == Init /\ [][NextCatalog]_vars

\* the stock of the catalog entries
NextStock ==
  \/ AddProduct
  \/ EditProduct
  \/ DeleteProduct
  \/ PlaceOrder

SpecStock == Init /\ [][NextStock]_vars

\* the order ledger and its customers
NextLedger ==
  \/ Register
  \/ PlaceOrder
  \/ MarkSeen
  \/ CountNewForFarmer

SpecLedger == Init /\ [][NextLedger]_vars

\* the ledger of several farmers
NextSeen ==
  \/ Register
  \/ AddProduct
  \/ PlaceOrder
  \/ MarkSeen
  \/ CountNewForFarmer

SpecSeen == Init /\ [][NextSeen]_vars

\* the routes behind role_required
NextGate ==
  \/ AdminEditUser
  \/ AdminDashboard
  \/ AdminUsers
  \/ AdminProducts
  \/ AddProduct
  \/ EditProduct
  \/ DeleteProduct
  \/ MarkSeen
  \/ CountNewForFarmer

SpecGate == Init /\ [][NextGate]_vars

(***************************************************************************)
(* order_product served by concurrent request threads.  Each thread has   *)
(* its own session: the product it loaded, and what it changed in it, is   *)
(* private until the commit, which writes the quantity it computed.        *)
(***************************************************************************)
Finish(r, outcome) ==
  /\ req' = [req EXCEPT ![r].pc = "done", ![r].outcome = outcome]
  /\ last' = [op |-> "order_product", outcome |-> outcome, value |-> 0]

\* lines 291-293: login_required, then the product row is read
ReadProduct(r, caller, pid, qtyField) ==
  /\ req[r].pc = "idle"
  /\ UNCHANGED <<users, products, orders>>
  /\ IF caller = Anon
       THEN Finish(r, "login_challenge")
     ELSE IF pid \notin ProductIds(DB)
       THEN Finish(r, "not_found")
     ELSE /\ req' = [req EXCEPT ![r] =
                       [IdleReq EXCEPT !.pc = "check", !.caller = caller,
                                       !.pid = pid, !.qty = qtyField,
                                       !.seen = products[pid].quantity,
                                       !.quantity = products[pid].quantity,
                                       !.price = products[pid].price]]
          /\ UNCHANGED last

\* lines 294-304: the role and the quantity are checked against the row as read
CheckQuantity(r) ==
  /\ req[r].pc = "check"
  /\ UNCHANGED <<users, products, orders>>
  /\ IF users[req[r].caller].role # "customer"
       THEN Finish(r, "not_customer")
     ELSE IF OrderCheck(req[r].qty, req[r].quantity) # "ok"
       THEN Finish(r, OrderCheck(req[r].qty, req[r].quantity))
     ELSE /\ req' = [req EXCEPT ![r].pc = "decrement"]
          /\ UNCHANGED last

\* lines 305-308: the order is built and the loaded row decremented, in the session
Decrement(r) ==
  /\ req[r].pc = "decrement"
  /\ req' = [req EXCEPT ![r].pc = "commit",
                        ![r].total = ParseNumber(req[r].qty) * req[r].price,
                        ![r].quantity = req[r].quantity - ParseNumber(req[r].qty)]
  /\ UNCHANGED <<users, products, orders, last>>

\* line 309: UPDATE product SET quantity = <the session's value>, INSERT the order
CommitOrder(r) ==
  /\ req[r].pc = "commit"
  /\ Len(orders) < MaxOrders
  /\ req[r].pid \in ProductIds(DB)
  /\ products' = [products EXCEPT ![req[r].pid].quantity = req[r].quantity]
  /\ orders' = Append(orders,
                 [customer_id |-> req[r].caller, product_id |-> req[r].pid,
                  quantity |-> ParseNumber(req[r].qty),
                  total_price |-> req[r].total, is_new |-> TRUE])
  /\ Finish(r, "ok")
  /\ UNCHANGED users

NextConc ==
  \/ \E r \in 1..NumRequests, caller \in Callers,
        pid \in ProductIds(DB) \cup {NextProductId(DB)}, q \in OrderQuantities :
       ReadProduct(r, caller, pid, q)
  \/ \E r \in 1..NumRequests : CheckQuantity(r)
  \/ \E r \in 1..NumRequests : Decrement(r)
  \/ \E r \in 1..NumRequests : CommitOrder(r)

SpecConc == Init /\ [][NextConc]_vars

\* every route
Next ==
  \/ Register
  \/ AdminEditUser
  \/ AdminDashboard
  \/ AdminUsers
  \/ AdminProducts
  \/ AddProduct
  \/ EditProduct
  \/ DeleteProduct
  \/ PlaceOrder
  \/ MarkSeen
  \/ CountNewForFarmer

Spec == Init /\ [][Next]_vars

(***************************************************************************)
(* Properties                                                              *)
(***************************************************************************)
\* the quantities the properties try on every product
ProbeQuantities == {-1, 0, 1, 10, 30, 31, 40, 41, 70, 100, 101}

Customers == { c \in UserIds(DB) : users[c].role = "customer" }

OwnerOfOrder(db, o) == db.products[db.orders[o].product_id].farmer_id

\* C1: two PlaceOrder requests that read the same stock S of one product,
\* each for a quantity within S but together for more than S, do not both
\* succeed, whatever the interleaving of their steps
C1_AtMostOneSucceeds ==
  \A r1, r2 \in 1..NumRequests :
    ( /\ r1 # r2
      /\ req[r1].pc # "idle" /\ req[r2].pc # "idle"
      /\ req[r1].pid = req[r2].pid
      /\ req[r1].seen = req[r2].seen
      /\ 0 < ParseNumber(req[r1].qty) /\ ParseNumber(req[r1].qty) <= req[r1].seen
      /\ 0 < ParseNumber(req[r2].qty) /\ ParseNumber(req[r2].qty) <= req[r2].seen
      /\ ParseNumber(req[r1].qty) + ParseNumber(req[r2].qty) > req[r1].seen )
    => ~(req[r1].outcome = "ok" /\ req[r2].outcome = "ok")

\* C2: after any sequence of PlaceOrder calls, each run to completion, on
\* products whose quantity was >= 0, every product's quantity is >= 0
C2_StockStaysNonNegative ==
  \A p \in ProductIds(DB) : products[p].quantity >= 0

\* orders were placed until the ledger's bound and stock was taken
C2_Witness ==
  /\ last.op = "order_product" /\ last.outcome = "ok"
  /\ Len(orders) = MaxOrders
  /\ \E p \in ProductIds(DB) : products[p].quantity < 100 /\ p = 1

\* C3: PlaceOrder by a customer for 0 < q <= the product's quantity succeeds,
\* takes exactly q off that product's quantity and adds exactly one order, of
\* that customer, product and quantity, with total q times the unit price,
\* marked new; and no PlaceOrder request adds an order without changing a
\* quantity or changes a quantity without adding an order
C3_OrderWithinStock ==
  /\ \A c \in Customers, p \in ProductIds(DB), q \in ProbeQuantities :
       (0 < q /\ q <= products[p].quantity) =>
         LET r == order_product(DB, c, "POST", p, IntField(q)) IN
           /\ r.outcome = "ok"
           /\ r.db.users = users
           /\ r.db.products = [products EXCEPT ![p].quantity = products[p].quantity - q]
           /\ r.db.orders = Append(orders,
                [customer_id |-> c, product_id |-> p, quantity |-> q,
                 total_price |-> q * products[p].price, is_new |-> TRUE])
  /\ \A c \in Callers, p \in ProductIds(DB) \cup {NextProductId(DB)},
        f \in OrderQuantities \cup {IntField(q) : q \in ProbeQuantities},
        m \in {"GET", "POST"} :
       LET r == order_product(DB, c, m, p, f) IN
         (r.db.orders # orders) <=> (r.db.products # products)

\* an order was placed at the price an edit had set
C3_Witness ==
  /\ last.op = "order_product" /\ last.outcome = "ok"
  /\ orders[Len(orders)].quantity = 30
  /\ orders[Len(orders)].total_price = 600
  /\ products[orders[Len(orders)].product_id].quantity = 0

\* C4: PlaceOrder for a quantity greater than the product's quantity fails
\* with the insufficient-stock outcome and changes nothing
C4_InsufficientStock ==
  \A c \in Customers, p \in ProductIds(DB), q \in ProbeQuantities :
    q > products[p].quantity =>
      LET r == order_product(DB, c, "POST", p, IntField(q)) IN
        r.outcome = "insufficient_stock" /\ r.db = DB

\* C5: EditProduct and DeleteProduct by a logged-in user who is not the
\* product's farmer answer forbidden and leave the database as it was
C5_NonOwnerForbidden ==
  \A c \in UserIds(DB), p \in ProductIds(DB) :
    products[p].farmer_id # c =>
      /\ \A f \in ProductForms :
           LET r == edit_product(DB, c, "POST", p, f) IN
             r.outcome = "forbidden" /\ r.db = DB
      /\ LET r == edit_product(DB, c, "GET", p, NoProductForm) IN
           r.outcome = "forbidden" /\ r.db = DB
      /\ LET r == delete_product(DB, c, "POST", p) IN
           r.outcome = "forbidden" /\ r.db = DB

\* two farmers each own a product, and a request was answered forbidden
C5_Witness ==
  /\ last.op \in {"edit_product", "delete_product"} /\ last.outcome = "forbidden"
  /\ \E u1, u2 \in UserIds(DB), p1, p2 \in ProductIds(DB) :
       /\ u1 # u2
       /\ users[u1].role = "farmer" /\ users[u2].role = "farmer"
       /\ products[p1].farmer_id = u1 /\ products[p2].farmer_id = u2

\* C6: no two users share a username, and a Register with a taken username
\* fails as duplicate and adds no user
C6_UniqueUsernames ==
  /\ \A u1, u2 \in UserIds(DB) :
       u1 # u2 => users[u1].username # users[u2].username
  /\ \A f \in RegisterForms :
       (RegisterFormValid(f) /\ \E u \in UserIds(DB) : users[u].username = Strip(f.username)) =>
         LET r == register(DB, Anon, "POST", f) IN
           r.outcome = "duplicate_username" /\ r.db = DB

\* a user was renamed by the admin, the freed name registered, and a
\* registration refused as duplicate
C6_Witness ==
  /\ last.op = "register" /\ last.outcome = "duplicate_username"
  /\ Len(users) = 4
  /\ users[2].username = "dave"
  /\ users[4].username = "farmer1"

\* C8: every product's quantity is a non-negative integer, whatever integers
\* AddProduct and EditProduct were given
C8_QuantityIsNatural ==
  \A p \in ProductIds(DB) : products[p].quantity \in Nat

\* C9: every user's role is one of farmer, customer, admin
C9_RoleIsOneOfThree ==
  \A u \in UserIds(DB) : users[u].role \in {"farmer", "customer", "admin"}

\* C7: MarkSeen by a farmer leaves that farmer's count of new orders at 0, a
\* second MarkSeen right after it changes nothing, and MarkSeen changes the
\* new flag of no order on another farmer's product (and nothing but flags)
C7_MarkSeen ==
  \A f \in UserIds(DB) :
    users[f].role = "farmer" =>
      LET r1 == farmer_dashboard(DB, f)
          r2 == farmer_dashboard(r1.db, f)
      IN /\ r1.outcome = "ok"
         /\ new_orders_count(r1.db, f).value = 0
         /\ \A o \in OrderIds(r1.db) :
              OwnerOfOrder(r1.db, o) = f => ~r1.db.orders[o].is_new
         /\ r2.outcome = "ok" /\ r2.db = r1.db
         /\ new_orders_count(r2.db, f).value = 0
         /\ r1.db.users = users /\ r1.db.products = products
         /\ Len(r1.db.orders) = Len(orders)
         /\ \A o \in OrderIds(DB) :
              /\ OwnerOfOrder(DB, o) # f => r1.db.orders[o] = orders[o]
              /\ r1.db.orders[o] = [orders[o] EXCEPT !.is_new = r1.db.orders[o].is_new]

\* a farmer's dashboard cleared an order while another farmer's order is new
C7_Witness ==
  /\ last.op = "farmer_dashboard" /\ last.outcome = "ok"
  /\ \E o1, o2 \in OrderIds(DB) :
       /\ o1 > 1 /\ ~orders[o1].is_new
       /\ orders[o2].is_new
       /\ OwnerOfOrder(DB, o1) # OwnerOfOrder(DB, o2)

\* every request to a route behind role_required, with the role it requires
GatedResponses(c) ==
  [role : {"admin"},
   r : {admin_view(DB, c)}
       \cup {admin_edit_user(DB, c, "GET", u, NoUserForm) : u \in 1..(Len(users) + 1)}
       \cup {admin_edit_user(DB, c, "POST", u, f) :
               u \in 1..(Len(users) + 1), f \in AdminUserForms}]
  \cup
  [role : {"farmer"},
   r : {farmer_dashboard(DB, c), new_orders_count(DB, c),
        add_product(DB, c, "GET", NoProductForm)}
       \cup {add_product(DB, c, "POST", f) : f \in ProductForms}
       \cup {edit_product(DB, c, "GET", p, NoProductForm) :
               p \in ProductIds(DB) \cup {NextProductId(DB)}}
       \cup {edit_product(DB, c, "POST", p, f) :
               p \in ProductIds(DB) \cup {NextProductId(DB)}, f \in ProductForms}
       \cup {delete_product(DB, c, "POST", p) :
               p \in ProductIds(DB) \cup {NextProductId(DB)}}]

\* C10: behind role_required(R) a caller without a session gets the login
\* challenge, a logged-in caller of another role gets forbidden, in both
\* cases the database stays as it was, and only a caller of role R gets past
C10_Gate ==
  \A c \in Callers : \A g \in GatedResponses(c) :
    /\ c = Anon => (g.r.outcome = "login_challenge" /\ g.r.db = DB)
    /\ (c # Anon /\ users[c].role # g.role) =>
         (g.r.outcome = "forbidden" /\ g.r.db = DB)
    /\ (g.r.db # DB \/ g.r.outcome \in {"ok", "form"}) =>
         (c # Anon /\ users[c].role = g.role)

\* the gate turned a logged-in caller away from a farmer route while a user
\* other than the first is admin
C10_Witness ==
  /\ last.op = "add_product" /\ last.outcome = "forbidden"
  /\ \E u \in UserIds(DB) : u # 1 /\ users[u].role = "admin"

====
